---- MODULE Spec2Model ----
(***************************************************************************)
(* gh-watch.py: persisted stores (Data / Config / Repos / Cache), the      *)
(* rate-limited fetch of the three source types, and the review loop of    *)
(* main().  One process run goes StartRun -> fetch -> review -> Finish ->  *)
(* Teardown; an uncaught exception goes to "crashed" and then Teardown.    *)
(* Epoch seconds are scaled to small naturals.                             *)
(***************************************************************************)
EXTENDS Integers, Sequences, FiniteSets, TLC

\* ---------------------------------------------------------------- bounds
MaxTime == 2
MaxItems == 1
MaxRuns == 2
MaxReadme == 1
SnoozeSeconds == 2

\* retry delay of the two retry loops, in model seconds (RETRY = 30)
RETRY == 1

\* ------------------------------------------------------------- universe
Names == {"u/a", "u/b"}
NameRank == [n \in Names |-> IF n = "u/a" THEN 1 ELSE 2]
NoMatch == "nomatch"

None == "None"

\* what the remote services report for a repository
ItemRepo == [n \in Names |-> IF n = "u/a" THEN "a" ELSE "b"]
ItemDescription == [n \in Names |-> IF n = "u/a" THEN None ELSE "d"]
ItemLanguage == [n \in Names |-> IF n = "u/a" THEN "Python" ELSE "C++"]
ItemHomepage == [n \in Names |-> IF n = "u/a" THEN "hp" ELSE None]

Stores == {"config", "repos", "cache"}

\* config['fetches']: one source of each type and one of an unknown type
Fetches ==
  << [key |-> "t", type |-> "trend", interval |-> 1],
     [key |-> "x", type |-> "bogus", interval |-> 0],
     [key |-> "s", type |-> "search", interval |-> 2],
     [key |-> "r", type |-> "r/coolgithubprojects", interval |-> 1] >>

\* A compiled filter is modelled by the set of strings its search() matches.
\* The user may edit the config file between runs.
Config(fr, fd, langs) ==
  [ filters_repo |-> fr, filters_description |-> fd,
    accept_languages |-> langs, snooze_seconds |-> SnoozeSeconds,
    cmd_readme |-> "less", cmd_url |-> "opener" ]

Configs ==
  { Config({}, {}, {"All"}),
    Config({{"a"}}, {}, {"All"}),
    Config({}, {{"d"}}, {"All"}),
    Config({}, {}, {"Python"}) }

Min(a, b) == IF a < b THEN a ELSE b

VARIABLES
  now,        \* time()
  pc,         \* position of the process in main()
  args,       \* parsed command line: [force, check]
  config,     \* Config().data for the run
  cache,      \* Cache.data: [repos, fetches, rl]
  repos,      \* Repos.data: [snooze, zap]
  updated,    \* Data.updated of each store
  disk,       \* content of the files: [cache, repos]
  fidx,       \* index into config['fetches'] in Cache.fetch
  queue,      \* the rest of list(sorted(cache['repos'].keys()))
  cmd,        \* the local variable cmd of main()
  writes,     \* file writes of each store in this run
  touched,    \* stores whose mapping was mutated since load
  lastReq,    \* the request issued through gh_req in the last step
  reqd,       \* rate-limit classes already requested in this run
  readmes,    \* README requests of this run
  run,        \* number of process runs started so far
  shown,      \* names print_repo was called for in this run
  checked,    \* pending records a license check has returned a result for
  ev          \* what the last step did

vars == << now, pc, args, config, cache, repos, updated, disk, fidx, queue,
           cmd, writes, touched, lastReq, reqd, readmes, run, shown,
           checked, ev >>

\* ---------------------------------------------------------- filter_repo
FilterSearch(f, s) == s \in f

\* mutation: the description filters are not applied
filter_repo_names(r, cfg) ==
  \E f \in cfg.filters_repo : FilterSearch(f, r.repo)

filter_repo(r, cfg) ==
  \/ \E f \in cfg.filters_repo : FilterSearch(f, r.repo)
  \/ \E f \in cfg.filters_description :
        r.description # None /\ FilterSearch(f, r.description)

\* ------------------------------------------------------------- Repos
\* mutation: the zap list is not looked at
ReposContainsSnooze(rp, item) == item \in DOMAIN rp.snooze

ReposContains(rp, item) ==
  item \in DOMAIN rp.snooze \/ \E i \in 1..Len(rp.zap) : rp.zap[i] = item

\* mutation: the threshold test with > for >=
SnoozeExpiredLate(sn, t, cfg) ==
  {r \in DOMAIN sn : t - cfg.snooze_seconds > sn[r]}

SnoozeExpired(sn, t, cfg) ==
  {r \in DOMAIN sn : t - cfg.snooze_seconds >= sn[r]}

ReposInit(data, t, cfg) ==
  [data EXCEPT !.snooze =
     [r \in (DOMAIN data.snooze) \ SnoozeExpired(data.snooze, t, cfg)
        |-> data.snooze[r]]]

ReposSnooze(rp, full_name, t) ==
  [rp EXCEPT !.snooze =
     [r \in (DOMAIN rp.snooze) \cup {full_name} |->
        IF r = full_name THEN t ELSE rp.snooze[r]]]

ReposZap(rp, full_name) == [rp EXCEPT !.zap = Append(rp.zap, full_name)]

\* ------------------------------------------------------------- Cache
NoLicense == "absent"

\* the record the three fetch routines build from a returned item
Repo(fn, lang, count, homepage) ==
  [ full_name |-> fn, repo |-> ItemRepo[fn], language |-> lang,
    stargazers_count |-> count, forks_count |-> count,
    homepage |-> homepage, description |-> ItemDescription[fn],
    license |-> NoLicense ]

PutRepo(rs, fn, r) ==
  [k \in (DOMAIN rs) \cup {fn} |-> IF k = fn THEN r ELSE rs[k]]

DelRepo(rs, fn) == [k \in (DOMAIN rs) \ {fn} |-> rs[k]]

\* mutation: every language is accepted
LangAcceptedAny(lang, cfg) == TRUE

LangAccepted(lang, cfg) ==
  "All" \in cfg.accept_languages \/ lang \in cfg.accept_languages

\* mutation: the watchlist is not consulted
AddableIgnoringRepos(rs, rp, cfg, r, useLang) ==
  /\ ~filter_repo(r, cfg)
  /\ r.full_name \notin DOMAIN rs
  /\ useLang => LangAccepted(r.language, cfg)

\* the three tests before "adding ... to cache" (lines 326-335, 424-433)
Addable(rs, rp, cfg, r, useLang) ==
  /\ ~filter_repo(r, cfg)
  /\ ~(r.full_name \in DOMAIN rs \/ ReposContains(rp, r.full_name))
  /\ useLang => LangAccepted(r.language, cfg)

\* the for loop over the returned records, in order
RECURSIVE AddAll(_, _, _, _, _)
AddAll(rs, rp, cfg, recs, useLang) ==
  IF recs = << >> THEN rs
  ELSE LET r == Head(recs)
           rs1 == IF Addable(rs, rp, cfg, r, useLang)
                  THEN PutRepo(rs, r.full_name, r) ELSE rs
       IN AddAll(rs1, rp, cfg, Tail(recs), useLang)

RECURSIVE MapSeq(_, _)
MapSeq(F(_), s) ==
  IF s = << >> THEN << >> ELSE << F(Head(s)) >> \o MapSeq(F, Tail(s))

SearchRecord(fn) == Repo(fn, ItemLanguage[fn], 5, ItemHomepage[fn])
\* an entry without a description gets '' (line 357), never None
TrendRecord(fn) ==
  [Repo(fn, ItemLanguage[fn], -1, None) EXCEPT
     !.description = IF @ = None THEN "" ELSE @]
CghpRecord(fn) == Repo(fn, ItemLanguage[fn], -2, None)

\* item lists a service can return
ItemSeqs == UNION {[1..k -> Names] : k \in 0..MaxItems}
CghpSeqs == UNION {[1..k -> Names \cup {NoMatch}] : k \in 0..MaxItems}

\* ------------------------------------------------------------- gh_req
RLTypes == {"api_rl_search", "api_rl_general"}

RLDefault == [remain |-> 1, reset |-> 0]

\* self.get(rl_type, {'remain': 1, 'reset': 0})
RLGet(c, rl_type) ==
  IF rl_type \in DOMAIN c.rl THEN c.rl[rl_type] ELSE RLDefault

\* mutation: no sleep before the request
GateWakeNoSleep(rl, t) == t

\* the time at which requests.get is called: after the sleep, if there is one
GateWake(rl, t) == IF rl.remain = 0 /\ t < rl.reset THEN rl.reset ELSE t

\* self[rl_type] = rl
RLPut(c, rl_type, rl) ==
  [c EXCEPT !.rl =
     [k \in (DOMAIN c.rl) \cup {rl_type} |->
        IF k = rl_type THEN rl ELSE c.rl[k]]]

\* mutation: the status is never checked
GhReqNeverRaises(status, raise_error) == FALSE

\* if raise_error: r.raise_for_status()
GhReqRaises(status, raise_error) == raise_error /\ status # "ok"

\* one call of gh_req: the remembered state it found, when it was called and
\* when it issued the request
ReqRecord(c, rl_type, t) ==
  [ type |-> rl_type, remain |-> RLGet(c, rl_type).remain,
    reset |-> RLGet(c, rl_type).reset, called |-> t,
    issued |-> GateWake(RLGet(c, rl_type), t),
    reloaded |-> rl_type \notin reqd /\ rl_type \in DOMAIN disk.cache.rl ]

NoReq == [ type |-> None, remain |-> 1, reset |-> 0, called |-> 0,
           issued |-> 0, reloaded |-> FALSE ]

\* X-RateLimit-Remaining / X-RateLimit-Reset a response may carry
Headers(t) == [remain : {0, 1}, reset : {Min(t + 1, MaxTime)}]

\* ---------------------------------------------------------- Data
Empty == [k \in {} |-> 0]

\* Data.DICT of Cache and of Repos: the content when the file is absent
CacheDICT == [repos |-> Empty, fetches |-> Empty, rl |-> Empty]
ReposDICT == [snooze |-> Empty, zap |-> << >>]
ConfigDICT == Config({}, {}, {"All"})

Clean == [s \in Stores |-> FALSE]
NoWrites == [s \in Stores |-> 0]

\* mutation: the flag stays set after the write
SaveKeepsFlag(st, s, m) ==
  IF ~st.updated[s] THEN st
  ELSE [ disk |-> [st.disk EXCEPT ![s] = m],
         updated |-> st.updated,
         writes |-> [st.writes EXCEPT ![s] = @ + 1] ]

\* Data.save of store s with in-memory mapping m, on the files and flags st
Save(st, s, m) ==
  IF ~st.updated[s] THEN st
  ELSE [ disk |-> [st.disk EXCEPT ![s] = m],
         updated |-> [st.updated EXCEPT ![s] = FALSE],
         writes |-> [st.writes EXCEPT ![s] = @ + 1] ]

\* list(sorted(keys))
RECURSIVE SortedKeys(_)
SortedKeys(S) ==
  IF S = {} THEN << >>
  ELSE LET m == CHOOSE x \in S : \A y \in S : NameRank[x] <= NameRank[y]
       IN << m >> \o SortedKeys(S \ {m})

EvR(op, fn, resp, count, items) ==
  [op |-> op, fn |-> fn, resp |-> resp, count |-> count, items |-> items]

Ev(op, fn) == EvR(op, fn, None, 0, << >>)

Init ==
  /\ now = 0
  /\ pc = "off"
  /\ args = [force |-> "none", check |-> FALSE]
  /\ config = ConfigDICT
  /\ cache = CacheDICT
  /\ repos = ReposDICT
  /\ updated = Clean
  /\ disk = [cache |-> CacheDICT, repos |-> ReposDICT, config |-> ConfigDICT]
  /\ fidx = 1
  /\ queue = << >>
  /\ cmd = "unbound"
  /\ writes = NoWrites
  /\ touched = {}
  /\ lastReq = NoReq
  /\ reqd = {}
  /\ readmes = 0
  /\ run = 0
  /\ shown = {}
  /\ checked = {}
  /\ ev = Ev("init", None)

\* time passes between two runs of the process
Tick ==
  /\ pc = "off"
  /\ run > 0
  /\ now < MaxTime
  /\ now' = now + 1
  /\ ev' = Ev("tick", None)
  /\ lastReq' = NoReq
  /\ UNCHANGED << pc, args, config, cache, repos, updated, disk, fidx, queue,
                  cmd, writes, touched, reqd, readmes, run, shown, checked >>

\* main() up to the decision whether to fetch (lines 436-465): Config(),
\* Repos(config), Cache(config, repos), cache['fetches'].clear()
Begin(cfgs, forces, checks) ==
  /\ pc = "off"
  /\ run < MaxRuns
  /\ \E cfg \in cfgs, force \in forces, check \in checks :
       LET rp == ReposInit(disk.repos, now, cfg)
           c1 == IF force = "force_all"
                 THEN [disk.cache EXCEPT !.fetches = Empty] ELSE disk.cache
           doFetch == force # "none" \/ DOMAIN disk.cache.repos = {}
       IN /\ config' = cfg
          /\ args' = [force |-> force, check |-> check]
          /\ repos' = rp
          /\ cache' = c1
          /\ updated' = [Clean EXCEPT !["repos"] = (rp # disk.repos)]
          /\ touched' = {s \in {"repos"} : rp # disk.repos}
                          \cup {s \in {"cache"} : c1 # disk.cache}
          /\ pc' = IF doFetch THEN "fetch" ELSE "review"
          /\ queue' = IF doFetch THEN << >> ELSE SortedKeys(DOMAIN c1.repos)
          /\ ev' = Ev("start", force)
  /\ run' = run + 1
  /\ fidx' = 1
  /\ cmd' = "unbound"
  /\ writes' = NoWrites
  /\ lastReq' = NoReq
  /\ reqd' = {}
  /\ readmes' = 0
  /\ shown' = {}
  /\ UNCHANGED << now, disk, checked >>

\* a run with any configuration and any command line
StartRun == Begin(Configs, {"none", "force", "force_all"}, BOOLEAN)

\* an interactive run without --force / --force-all and with the default
\* filters and languages
StartInteractive == Begin({ConfigDICT}, {"none"}, {FALSE})

\* ------------------------------------------------------- Cache.fetch
\* mutation: the interval is not looked at
DueAlways(c, fetch, t) == TRUE

\* the negation of the "continue" test of lines 256-259
Due(c, fetch, t) ==
  ~(fetch.key \in DOMAIN c.fetches /\ t - fetch.interval < c.fetches[fetch.key])

\* mutation: the time of the fetch is not recorded
SetFetchedNot(c, key, t) == c

\* self['fetches'][fetch['key']] = time()
SetFetched(c, key, t) ==
  [c EXCEPT !.fetches =
     [k \in (DOMAIN c.fetches) \cup {key} |->
        IF k = key THEN t ELSE c.fetches[k]]]

KnownTypes == {"search", "trend", "r/coolgithubprojects"}

AtSource(type) ==
  /\ pc = "fetch"
  /\ fidx <= Len(Fetches)
  /\ Fetches[fidx].type = type
  /\ Due(cache, Fetches[fidx], now)

\* a source still within its interval: continue
FetchSkip ==
  /\ pc = "fetch"
  /\ fidx <= Len(Fetches)
  /\ ~Due(cache, Fetches[fidx], now)
  /\ fidx' = fidx + 1
  /\ ev' = Ev("skip", Fetches[fidx].key)
  /\ lastReq' = NoReq
  /\ UNCHANGED << now, pc, args, config, cache, repos, updated, disk, queue,
                  cmd, writes, touched, reqd, readmes, run, shown, checked >>

\* a due source of a type fetch() does not know: log.error, continue
FetchUnknown ==
  /\ pc = "fetch"
  /\ fidx <= Len(Fetches)
  /\ Due(cache, Fetches[fidx], now)
  /\ Fetches[fidx].type \notin KnownTypes
  /\ fidx' = fidx + 1
  /\ ev' = Ev("unknown", Fetches[fidx].key)
  /\ lastReq' = NoReq
  /\ UNCHANGED << now, pc, args, config, cache, repos, updated, disk, queue,
                  cmd, writes, touched, reqd, readmes, run, shown, checked >>

\* requests.get of the search API answers with a status, or raises
SearchResponses == {"ok", "error", "ConnectionError"}

\* fetch_search through gh_req, then lines 271-272
FetchSearch ==
  /\ AtSource("search")
  /\ LET ty == "api_rl_search"
         wake == GateWake(RLGet(cache, ty), now)
         key == Fetches[fidx].key
     IN \E resp \in SearchResponses, h \in Headers(wake), items \in ItemSeqs :
          LET c1 == RLPut(cache, ty, h)
              c2 == [c1 EXCEPT !.repos =
                       AddAll(c1.repos, repos, config,
                              MapSeq(SearchRecord, items), TRUE)]
          IN /\ now' = wake
             /\ lastReq' = ReqRecord(cache, ty, now)
             /\ reqd' = reqd \cup {ty}
             /\ ev' = EvR("dispatch", key, resp, 0, items)
             /\ IF resp = "ConnectionError"
                THEN /\ items = << >>
                     /\ pc' = "crashed"
                     /\ UNCHANGED << cache, updated, touched, fidx >>
                ELSE /\ updated' = [updated EXCEPT !["cache"] = TRUE]
                     /\ touched' = touched \cup {"cache"}
                     /\ IF GhReqRaises(resp, TRUE)
                        THEN /\ items = << >>
                             /\ cache' = c1
                             /\ fidx' = fidx
                             /\ pc' = "crashed"
                        ELSE /\ cache' = SetFetched(c2, key, wake)
                             /\ fidx' = fidx + 1
                             /\ pc' = "fetch"
  /\ UNCHANGED << args, config, repos, disk, queue, cmd, writes, readmes, run,
                  shown, checked >>

\* fetch_trend / fetch_trend_lang: feedparser reads the feed, without gh_req;
\* a feed it cannot read has no entries
FetchTrend ==
  /\ AtSource("trend")
  /\ \E items \in ItemSeqs :
       /\ cache' = SetFetched(
                     [cache EXCEPT !.repos =
                        AddAll(cache.repos, repos, config,
                               MapSeq(TrendRecord, items), FALSE)],
                     Fetches[fidx].key, now)
       /\ ev' = EvR("dispatch", Fetches[fidx].key, "ok", 0, items)
  /\ updated' = [updated EXCEPT !["cache"] = TRUE]
  /\ touched' = touched \cup {"cache"}
  /\ fidx' = fidx + 1
  /\ lastReq' = NoReq
  /\ UNCHANGED << now, pc, args, config, repos, disk, queue, cmd, writes,
                  reqd, readmes, run, shown, checked >>

\* one pass of the "while True" loop of fetch_cghp: requests.get raises
\* (Timeout is caught, ConnectionError is not), or answers with a JSON body
\* that has an 'error' key, or with one that has the 'data'
CghpResponses == {"Timeout", "ConnectionError", "error", "data"}

\* the except clause of lines 394-397
CghpCaught(resp) == resp \in {"HTTPError", "Timeout"}

\* mutation: the 'error' key is not looked for
CghpCleanAlways(resp) == TRUE

\* 'error' not in resp, for a response that was received
CghpClean(resp) == resp # "error"

\* CGHP_RE.match(r['url']) fails: the item is skipped
CghpMatched(items) == SelectSeq(items, LAMBDA x : x # NoMatch)

FetchCghp ==
  /\ AtSource("r/coolgithubprojects") \/ pc = "cghp"
  /\ \E resp \in CghpResponses, items \in CghpSeqs :
       /\ ev' = EvR("dispatch", Fetches[fidx].key, resp, 0, items)
       /\ IF CghpCaught(resp) \/ (resp # "ConnectionError" /\ ~CghpClean(resp))
          THEN /\ now + RETRY <= MaxTime
               /\ items = << >>
               /\ now' = now + RETRY
               /\ pc' = "cghp"
               /\ UNCHANGED << cache, updated, touched, fidx >>
          ELSE IF resp = "ConnectionError"
          THEN /\ items = << >>
               /\ pc' = "crashed"
               /\ UNCHANGED << now, cache, updated, touched, fidx >>
          ELSE /\ cache' = SetFetched(
                             [cache EXCEPT !.repos =
                                AddAll(cache.repos, repos, config,
                                       MapSeq(CghpRecord, CghpMatched(items)),
                                       TRUE)],
                             Fetches[fidx].key, now)
               /\ updated' = [updated EXCEPT !["cache"] = TRUE]
               /\ touched' = touched \cup {"cache"}
               /\ fidx' = fidx + 1
               /\ pc' = "fetch"
               /\ now' = now
  /\ lastReq' = NoReq
  /\ UNCHANGED << args, config, repos, disk, queue, cmd, writes, reqd,
                  readmes, run, shown, checked >>

\* the for loop of fetch() has run out: lines 467-469
FetchDone ==
  /\ pc = "fetch"
  /\ fidx > Len(Fetches)
  /\ pc' = "review"
  /\ queue' = SortedKeys(DOMAIN cache.repos)
  /\ ev' = Ev("fetch_done", None)
  /\ lastReq' = NoReq
  /\ UNCHANGED << now, args, config, cache, repos, updated, disk, fidx, cmd,
                  writes, touched, reqd, readmes, run, shown, checked >>

\* ------------------------------------------------- the review loop
\* mutation: >= for >
check_license_ge(total_count) == total_count >= 0

\* check_license: resp.json()['total_count'] > 0
check_license(total_count) == total_count > 0

\* mutation: the stored result is not looked at
LicenseUnknownAlways(r) == TRUE

\* 'license' not in r
LicenseUnknown(r) == r.license = NoLicense

\* r['license'] = v
SetLicense(c, fn, v) == [c EXCEPT !.repos[fn].license = v]

\* lines 495-497: print_repo, then the prompt unless --check
\* mutation: the prompt loop is entered whatever --check says
DisplayAlwaysPrompts(fn) ==
  /\ shown' = shown \cup {fn}
  /\ pc' = "prompt"
  /\ queue' = queue

Display(fn) ==
  /\ shown' = shown \cup {fn}
  /\ IF args.check
     THEN pc' = "review" /\ queue' = Tail(queue)
     ELSE pc' = "prompt" /\ queue' = queue

\* the head of the for loop, lines 469-477 and 495-497
ReviewNext ==
  /\ pc = "review"
  /\ queue # << >>
  /\ LET fn == Head(queue)
         r == cache.repos[fn]
     IN IF filter_repo(r, config)
        THEN /\ cache' = [cache EXCEPT !.repos = DelRepo(cache.repos, fn)]
             /\ updated' = [updated EXCEPT !["cache"] = TRUE]
             /\ touched' = touched \cup {"cache"}
             /\ queue' = Tail(queue)
             /\ checked' = checked \ {fn}
             /\ ev' = Ev("dropped", fn)
             /\ UNCHANGED << pc, shown >>
        ELSE IF LicenseUnknown(r)
        THEN /\ cache' = SetLicense(cache, fn, None)
             /\ touched' = touched \cup {"cache"}
             /\ pc' = "license"
             /\ ev' = Ev("license_unknown", fn)
             /\ UNCHANGED << updated, queue, shown, checked >>
        ELSE /\ Display(fn)
             /\ ev' = Ev("display", fn)
             /\ UNCHANGED << cache, updated, touched, checked >>
  /\ lastReq' = NoReq
  /\ UNCHANGED << now, args, config, repos, disk, fidx, cmd, writes, reqd,
                  readmes, run >>

\* requests.get of the code search raises (Timeout is caught at line 483,
\* ConnectionError is not) or answers with a status
LicenseResponses == {"Timeout", "ConnectionError", "error", "ok"}

\* one pass of the "while True" loop of lines 478-486, then lines 488-497
LicenseAttempt ==
  /\ pc = "license"
  /\ LET fn == Head(queue)
         ty == "api_rl_search"
         wake == GateWake(RLGet(cache, ty), now)
     IN \E resp \in LicenseResponses, h \in Headers(wake),
           total_count \in {0, 1} :
          LET answered == resp \in {"error", "ok"}
              c1 == IF answered THEN RLPut(cache, ty, h) ELSE cache
              u1 == IF answered
                    THEN [updated EXCEPT !["cache"] = TRUE] ELSE updated
              lic == check_license(total_count)
          IN /\ lastReq' = ReqRecord(cache, ty, now)
             /\ reqd' = reqd \cup {ty}
             /\ ev' = EvR("license", fn, resp, total_count, << >>)
             /\ IF resp = "ConnectionError"
                THEN /\ total_count = 0
                     /\ now' = wake
                     /\ pc' = "crashed"
                     /\ UNCHANGED << cache, updated, touched, repos, queue,
                                     shown, checked >>
                ELSE IF resp = "Timeout" \/ GhReqRaises(resp, TRUE)
                THEN /\ total_count = 0
                     /\ wake + RETRY <= MaxTime
                     /\ now' = wake + RETRY
                     /\ cache' = c1
                     /\ updated' = u1
                     /\ touched' = touched \cup {s \in {"cache"} : answered}
                     /\ UNCHANGED << pc, repos, queue, shown, checked >>
                ELSE IF lic
                THEN /\ now' = wake
                     /\ cache' = SetLicense(c1, fn, "True")
                     /\ updated' = u1
                     /\ touched' = touched \cup {"cache"}
                     /\ checked' = checked \cup {fn}
                     /\ repos' = repos
                     /\ Display(fn)
                ELSE /\ now' = wake
                     /\ repos' = ReposSnooze(repos, fn, wake)
                     /\ cache' = [c1 EXCEPT !.repos = DelRepo(c1.repos, fn)]
                     /\ updated' = [u1 EXCEPT !["repos"] = TRUE]
                     /\ touched' = touched \cup {"cache", "repos"}
                     /\ checked' = checked \ {fn}
                     /\ pc' = "review"
                     /\ queue' = Tail(queue)
                     /\ shown' = shown
  /\ UNCHANGED << args, config, disk, fidx, cmd, writes, readmes, run >>

\* the files and flags, as Save takes them
Files == [disk |-> disk, updated |-> updated, writes |-> writes]

\* mutation: the watchlist is not saved
SaveCacheOnly(st) == Save(st, "cache", cache)

\* cache.save(); repos.save()
SaveBoth(st) == Save(Save(st, "cache", cache), "repos", repos)

SetFiles(st) ==
  /\ disk' = st.disk
  /\ updated' = st.updated
  /\ writes' = st.writes

\* normal completion after the last record, lines 548-549
Finish ==
  /\ pc = "review"
  /\ queue = << >>
  /\ SetFiles(SaveBoth(Files))
  /\ pc' = "exited"
  /\ ev' = Ev("finished", None)
  /\ lastReq' = NoReq
  /\ UNCHANGED << now, args, config, cache, repos, fidx, queue, cmd, touched,
                  reqd, readmes, run, shown, checked >>

\* 'z', lines 505-509
KeyZap ==
  /\ pc = "prompt"
  /\ LET fn == Head(queue)
     IN /\ repos' = ReposZap(repos, fn)
        /\ cache' = [cache EXCEPT !.repos = DelRepo(cache.repos, fn)]
        /\ checked' = checked \ {fn}
        /\ ev' = Ev("zapped", fn)
  /\ updated' = [updated EXCEPT !["cache"] = TRUE, !["repos"] = TRUE]
  /\ touched' = touched \cup {"cache", "repos"}
  /\ pc' = "review"
  /\ queue' = Tail(queue)
  /\ lastReq' = NoReq
  /\ UNCHANGED << now, args, config, disk, fidx, cmd, writes, reqd, readmes,
                  run, shown >>

\* 's', lines 510-514
KeySnooze ==
  /\ pc = "prompt"
  /\ LET fn == Head(queue)
     IN /\ repos' = ReposSnooze(repos, fn, now)
        /\ cache' = [cache EXCEPT !.repos = DelRepo(cache.repos, fn)]
        /\ checked' = checked \ {fn}
        /\ ev' = Ev("snoozed", fn)
  /\ updated' = [updated EXCEPT !["cache"] = TRUE, !["repos"] = TRUE]
  /\ touched' = touched \cup {"cache", "repos"}
  /\ pc' = "review"
  /\ queue' = Tail(queue)
  /\ lastReq' = NoReq
  /\ UNCHANGED << now, args, config, disk, fidx, cmd, writes, reqd, readmes,
                  run, shown >>

\* the README API answers with a status and, when 200, an encoding
ReadmeResponses == {"not_found", "error", "base64", "other_encoding"}

ReadmeStatus(resp) ==
  IF resp \in {"not_found", "error"} THEN resp ELSE "ok"

\* 'r', lines 515-534: the README through gh_req(raise_error=False)
KeyReadme ==
  /\ pc = "prompt"
  /\ readmes < MaxReadme
  /\ readmes' = readmes + 1
  /\ LET fn == Head(queue)
         ty == "api_rl_general"
         wake == GateWake(RLGet(cache, ty), now)
     IN \E resp \in ReadmeResponses, h \in Headers(wake) :
          /\ ~GhReqRaises(ReadmeStatus(resp), FALSE)
          /\ now' = wake
          /\ lastReq' = ReqRecord(cache, ty, now)
          /\ reqd' = reqd \cup {ty}
          /\ cache' = RLPut(cache, ty, h)
          /\ pc' = IF resp = "error" THEN "crashed" ELSE "prompt"
          /\ cmd' = IF resp = "base64" THEN config.cmd_readme ELSE cmd
          /\ ev' = EvR("readme", fn, resp, 0, << >>)
  /\ updated' = [updated EXCEPT !["cache"] = TRUE]
  /\ touched' = touched \cup {"cache"}
  /\ UNCHANGED << args, config, repos, disk, fidx, queue, writes, run, shown,
                  checked >>

\* 'c', lines 535-537
KeyCheck ==
  /\ pc = "prompt"
  /\ cmd' = config.cmd_url
  /\ ev' = EvR("popen", Head(queue), config.cmd_url, 0, << >>)
  /\ lastReq' = NoReq
  /\ UNCHANGED << now, pc, args, config, cache, repos, updated, disk, fidx,
                  queue, writes, touched, reqd, readmes, run, shown, checked >>

\* 'h', lines 538-539; without a homepage the key falls through the chain
KeyHomepage ==
  /\ pc = "prompt"
  /\ IF cache.repos[Head(queue)].homepage = None
     THEN pc' = pc /\ ev' = Ev("ignored", Head(queue))
     ELSE IF cmd = "unbound"
     THEN pc' = "crashed" /\ ev' = Ev("unbound_cmd", Head(queue))
     ELSE pc' = pc /\ ev' = EvR("popen_homepage", Head(queue), cmd, 0, << >>)
  /\ lastReq' = NoReq
  /\ UNCHANGED << now, args, config, cache, repos, updated, disk, fidx, queue,
                  cmd, writes, touched, reqd, readmes, run, shown, checked >>

\* ' ', lines 540-541
KeySkip ==
  /\ pc = "prompt"
  /\ pc' = "review"
  /\ queue' = Tail(queue)
  /\ ev' = Ev("skipped", Head(queue))
  /\ lastReq' = NoReq
  /\ UNCHANGED << now, args, config, cache, repos, updated, disk, fidx, cmd,
                  writes, touched, reqd, readmes, run, shown, checked >>

\* mutation: 'q' leaves the prompt loop only, as ' ' does
KeyQuitBreak ==
  /\ pc = "prompt"
  /\ SetFiles(SaveBoth(Files))
  /\ pc' = "review"
  /\ queue' = Tail(queue)
  /\ ev' = Ev("quit", Head(queue))
  /\ lastReq' = NoReq
  /\ UNCHANGED << now, args, config, cache, repos, fidx, cmd, touched,
                  reqd, readmes, run, shown, checked >>

\* 'q', lines 542-545
KeyQuit ==
  /\ pc = "prompt"
  /\ SetFiles(SaveBoth(Files))
  /\ pc' = "exited"
  /\ ev' = Ev("quit", Head(queue))
  /\ lastReq' = NoReq
  /\ UNCHANGED << now, args, config, cache, repos, fidx, queue, cmd, touched,
                  reqd, readmes, run, shown, checked >>

\* the process ends, main() having returned or raised: Data.__del__ of the
\* three stores, after which nothing of the process is left
Teardown ==
  /\ pc \in {"exited", "crashed"}
  /\ SetFiles(Save(SaveBoth(Files), "config", disk.config))
  /\ pc' = "off"
  /\ config' = ConfigDICT
  /\ cache' = CacheDICT
  /\ repos' = ReposDICT
  /\ args' = [force |-> "none", check |-> FALSE]
  /\ fidx' = 1
  /\ queue' = << >>
  /\ cmd' = "unbound"
  /\ lastReq' = NoReq
  /\ reqd' = {}
  /\ readmes' = 0
  /\ shown' = {}
  /\ ev' = Ev("teardown", pc)
  /\ UNCHANGED << now, touched, run, checked >>

\* the steps of a run after its start
Run ==
  \/ FetchSkip
  \/ FetchUnknown
  \/ FetchSearch
  \/ FetchTrend
  \/ FetchCghp
  \/ FetchDone
  \/ ReviewNext
  \/ LicenseAttempt
  \/ Finish
  \/ KeyZap
  \/ KeySnooze
  \/ KeySkip
  \/ KeyQuit
  \/ Teardown

\* runs of any kind in which the user answers z, s, space or q
Next ==
  \/ Tick
  \/ StartRun
  \/ Run

Spec == Init /\ [][Next]_vars

\* interactive runs in which the user also presses r, c and h
NextKeys ==
  \/ Tick
  \/ StartInteractive
  \/ Run
  \/ KeyReadme
  \/ KeyCheck
  \/ KeyHomepage

SpecKeys == Init /\ [][NextKeys]_vars

TypeOK ==
  /\ now \in 0..MaxTime
  /\ pc \in {"off", "fetch", "cghp", "review", "license", "prompt",
              "exited", "crashed"}
  /\ DOMAIN cache.repos \subseteq Names
  /\ DOMAIN repos.snooze \subseteq Names
  /\ checked \subseteq Names

\* ---------------------------------------------------------------- claims
InWatchlist(rp, n) ==
  n \in DOMAIN rp.snooze \/ n \in {rp.zap[i] : i \in 1..Len(rp.zap)}

\* C1: no full_name is pending and also snoozed or zapped, in memory and in
\* the files, whatever was fetched and reviewed
C1_Disjoint ==
  /\ [](/\ \A n \in DOMAIN cache.repos : ~InWatchlist(repos, n)
        /\ \A n \in DOMAIN disk.cache.repos : ~InWatchlist(disk.repos, n))
  /\ [][ ev'.op = "dispatch" =>
          \A n \in DOMAIN cache.repos :
            n \in DOMAIN cache'.repos /\ cache'.repos[n] = cache.repos[n] ]_vars

\* a fetch has returned a name that is snoozed or zapped
C1_Witness ==
  /\ ev.op = "dispatch"
  /\ pc = "fetch"
  /\ \E i \in 1..Len(ev.items) : InWatchlist(repos, ev.items[i])

\* C2: a request through gh_req that found remain = 0 and reset in the future
\* for its class was issued no earlier than that reset time
C2_Gate ==
  (lastReq.type # None /\ lastReq.remain = 0 /\ lastReq.called < lastReq.reset)
    => (lastReq.issued >= lastReq.reset /\ now >= lastReq.reset)

\* the gate held a request back on values an earlier run had written
C2_Witness ==
  /\ lastReq.type = "api_rl_general"
  /\ lastReq.reloaded
  /\ lastReq.remain = 0
  /\ lastReq.called < lastReq.reset

SnoozeStore == IF pc = "off" THEN disk.repos.snooze ELSE repos.snooze

\* the names the construction of Repos has expired in this run
Expired == (DOMAIN disk.repos.snooze) \ (DOMAIN repos.snooze)

PassesRules(n, key) ==
  /\ ~filter_repo(SearchRecord(n), config)
  /\ key = "t" \/ LangAccepted(ItemLanguage[n], config)

\* C3: a name snoozed at T stays in the snooze store while now < T + S, is
\* removed by the construction of a run that starts at now >= T + S, and is
\* then added to pending again by a fetch that returns it and whose rules it
\* passes
C3_SnoozeExpiry ==
  [][ /\ \A n \in DOMAIN SnoozeStore :
           now' < SnoozeStore[n] + SnoozeSeconds => n \in DOMAIN SnoozeStore'
      /\ (pc = "off" /\ pc' # "off") =>
           \A n \in DOMAIN disk.repos.snooze :
             now >= disk.repos.snooze[n] + SnoozeSeconds
               => n \notin DOMAIN repos'.snooze
      /\ (ev'.op = "dispatch" /\ pc' = "fetch") =>
           \A i \in 1..Len(ev'.items) :
             (ev'.items[i] \in Expired /\ PassesRules(ev'.items[i], ev'.fn))
               => ev'.items[i] \in DOMAIN cache'.repos ]_vars

\* an expired name was returned by a fetch and is pending again
C3_Witness ==
  /\ ev.op = "dispatch"
  /\ pc = "fetch"
  /\ \E i \in 1..Len(ev.items) :
       ev.items[i] \in Expired /\ ev.items[i] \in DOMAIN cache.repos

\* C4: a file is written only by a save() that found the dirty flag set, the
\* flag is clear afterwards, a store not mutated since load is not written,
\* and no store is written twice in a run
C4_SaveOnce ==
  [][ \A s \in Stores :
        /\ writes'[s] = writes[s] + 1
             => (updated[s] /\ ~updated'[s] /\ s \in touched)
        /\ writes'[s] # writes[s] + 1 => disk'[s] = disk[s]
        /\ writes'[s] <= 1 ]_vars

\* both stores were written by the explicit save and not again at teardown
C4_Witness ==
  /\ ev.op = "teardown"
  /\ ev.fn = "exited"
  /\ writes["cache"] = 1
  /\ writes["repos"] = 1

\* C5: no license query is issued for a pending record a license check has
\* returned a result for, in this or a later run; the query is repeated only
\* after an attempt that failed with a caught error
C5_LicenseOnce ==
  [][ /\ (pc = "license" /\ lastReq'.type # None) => Head(queue) \notin checked
      /\ (pc # "license" /\ pc' = "license") => Head(queue') \notin checked
      /\ (pc = "license" /\ pc' = "license")
           => ev'.resp \in {"Timeout", "error"} ]_vars

\* a record checked in the first run is displayed in the second
C5_Witness ==
  /\ run = 2
  /\ ev.op = "display"
  /\ ev.fn \in checked
  /\ ev.fn \in DOMAIN disk.cache.repos
  /\ disk.cache.repos[ev.fn].license = "True"

\* C6: a license check with zero matches removes the record from pending and
\* snoozes it at the current time, without display or prompt
C6_AutoSnooze ==
  [][ (ev'.op = "license" /\ ev'.resp = "ok" /\ ev'.count = 0) =>
        /\ ev'.fn \in DOMAIN cache.repos
        /\ ev'.fn \notin DOMAIN cache'.repos
        /\ ev'.fn \in DOMAIN repos'.snooze
        /\ repos'.snooze[ev'.fn] = now'
        /\ ev'.fn \notin shown'
        /\ pc' = "review" ]_vars

\* zero matches in check mode
C6_Witness ==
  /\ ev.op = "license"
  /\ ev.resp = "ok"
  /\ ev.count = 0
  /\ args.check
  /\ ev.fn \in DOMAIN repos.snooze

C8_LastFetch ==
  [][ (pc # "off" /\ pc' # "off") =>
        /\ \A i \in 1..Len(Fetches) :
             LET k == Fetches[i].key
             IN IF ev'.op = "dispatch" /\ ev'.fn = k
                   /\ ev'.resp \in {"ok", "data"}
                THEN k \in DOMAIN cache'.fetches /\ cache'.fetches[k] = now'
                ELSE /\ k \in DOMAIN cache'.fetches <=> k \in DOMAIN cache.fetches
                     /\ k \in DOMAIN cache.fetches
                          => cache'.fetches[k] = cache.fetches[k]
        /\ ev'.op = "unknown" =>
             (cache' = cache /\ pc' = "fetch" /\ fidx' = fidx + 1) ]_vars

\* the source after the one of unknown type was dispatched and recorded
C8_Witness ==
  /\ ev.op = "dispatch"
  /\ ev.fn = "s"
  /\ ev.resp = "ok"
  /\ cache.fetches["s"] = now
  /\ "x" \notin DOMAIN cache.fetches

CghpStep == ev'.op = "dispatch" /\ Fetches[fidx].type = "r/coolgithubprojects"

Returned == {ev'.items[i] : i \in 1..Len(ev'.items)}

\* a returned item matches a repo-name or a description filter
Matches(n) ==
  \/ \E f \in config.filters_repo : ItemRepo[n] \in f
  \/ \E f \in config.filters_description :
       ItemDescription[n] # None /\ ItemDescription[n] \in f

Survivors(useLang) ==
  {n \in Returned :
     /\ ~Matches(n)
     /\ n \notin DOMAIN cache.repos
     /\ ~InWatchlist(repos, n)
     /\ useLang => ("All" \in config.accept_languages
                      \/ ItemLanguage[n] \in config.accept_languages)}

AddedExactly(useLang, count) ==
  /\ DOMAIN cache'.repos = DOMAIN cache.repos \cup Survivors(useLang)
  /\ \A n \in DOMAIN cache.repos : cache'.repos[n] = cache.repos[n]
  /\ \A n \in Survivors(useLang) :
       /\ cache'.repos[n].full_name = n
       /\ cache'.repos[n].stargazers_count = count
       /\ cache'.repos[n].license = NoLicense

Later == {queue[i] : i \in 2..Len(queue)}

\* C12: skip changes neither pending nor the watchlist and the record stays
\* pending; quit ends the review at once with the current record still
\* pending, and no record after it is checked, displayed, removed or changed
C12_SkipQuit ==
  [][ /\ ev'.op = "skipped" =>
           /\ cache' = cache
           /\ repos' = repos
           /\ ev'.fn \in DOMAIN cache'.repos
           /\ ev'.fn = Head(queue)
      /\ ev'.op = "quit" =>
           /\ pc' = "exited"
           /\ cache' = cache
           /\ repos' = repos
           /\ ev'.fn = Head(queue)
           /\ ev'.fn \in DOMAIN cache'.repos
           /\ \A n \in Later : n \notin shown' /\ n \in DOMAIN cache'.repos
      /\ (pc = "exited" /\ ev.op = "quit") =>
           /\ pc' = "off"
           /\ lastReq'.type = None
           /\ disk'.cache.repos = cache.repos
           /\ disk'.repos = repos ]_vars

\* quit at the first of two records, the second never checked
C12_Witness ==
  /\ pc = "exited"
  /\ ev.op = "quit"
  /\ Len(queue) = 2
  /\ queue[2] \in DOMAIN cache.repos
  /\ cache.repos[queue[2]].license = NoLicense
  /\ queue[2] \notin shown

C14_CheckMode ==
  [][ (args.check /\ pc # "off") =>
        /\ pc' # "prompt"
        /\ ev'.op \notin {"zapped", "snoozed", "skipped", "quit", "readme",
                          "popen", "popen_homepage", "ignored", "unbound_cmd"}
        /\ disk'.repos.zap = disk.repos.zap
        /\ IF pc' = "off"
           THEN DOMAIN disk'.cache.repos = DOMAIN cache.repos
           ELSE /\ repos'.zap = repos.zap
                /\ \A n \in (DOMAIN cache.repos) \ (DOMAIN cache'.repos) :
                     /\ ev'.fn = n
                     /\ \/ ev'.op = "dropped"
                        \/ ev'.op = "license" /\ ev'.resp = "ok"
                             /\ ev'.count = 0 ]_vars

\* a run with --check has listed a record and ended with it still pending
C14_Witness ==
  /\ args.check
  /\ pc = "exited"
  /\ ev.op = "finished"
  /\ \E n \in shown : n \in DOMAIN disk.cache.repos
  /\ DOMAIN repos.snooze # {}

\* the pending record fn matches a filter of the configuration of this run
RecordMatches(fn) ==
  \/ \E f \in config.filters_repo : cache.repos[fn].repo \in f
  \/ \E f \in config.filters_description :
       cache.repos[fn].description # None /\ cache.repos[fn].description \in f

\* C15: in the review loop a pending record that matches a filter is removed
\* from pending and nothing else happens to it: no display, no prompt, no
\* license query, no entry in snooze or zap
C15_FilterDrop ==
  [][ /\ (pc = "review" /\ queue # << >> /\ RecordMatches(Head(queue))) =>
           /\ ev'.op = "dropped"
           /\ ev'.fn = Head(queue)
      /\ ev'.op = "dropped" =>
           /\ RecordMatches(ev'.fn)
           /\ ev'.fn \notin DOMAIN cache'.repos
           /\ DOMAIN cache'.repos = (DOMAIN cache.repos) \ {ev'.fn}
           /\ repos' = repos
           /\ shown' = shown
           /\ ev'.fn \notin shown'
           /\ lastReq'.type = None
           /\ pc' = "review" ]_vars

\* a record cached by the first run is dropped by the filters of the second
C15_Witness ==
  /\ run = 2
  /\ ev.op = "dropped"
  /\ ev.fn \in DOMAIN disk.cache.repos
  /\ ev.fn \notin DOMAIN cache.repos
  /\ ev.fn \notin shown

\* C16: a record is displayed only with a stored license result of true, and
\* the license field of a record in the cache file is absent or a boolean
C16_LicenseDisplayed ==
  /\ \A n \in DOMAIN disk.cache.repos :
       disk.cache.repos[n].license \in {NoLicense, "True", "False"}
  /\ ev.op = "display" =>
       /\ ev.fn \in DOMAIN cache.repos
       /\ cache.repos[ev.fn].license = "True"

\* C17: a non-2xx answer in the fetch of one source leaves the run going: the
\* loop over the sources moves on to the next one (and the review follows)
C17_Confined ==
  [][ (ev'.op = "dispatch" /\ ev'.resp = "error" /\ lastReq'.type # None) =>
        /\ pc' = "fetch"
        /\ fidx' = fidx + 1 ]_vars

\* C18: 'h' on a record with a homepage launches the configured URL opener,
\* never another command and never an error for lack of one
C18_HomepageOpener ==
  /\ ev.op # "unbound_cmd"
  /\ ev.op = "popen_homepage" => ev.resp = config.cmd_url

\* C19: while a process runs, a store whose in-memory mapping differs from
\* what was last loaded from or written to its file has its dirty flag set
\* (the cache and the watchlist; nothing assigns into the configuration)
C19_DirtyFlag ==
  pc # "off" =>
    /\ cache # disk.cache => updated["cache"]
    /\ repos # disk.repos => updated["repos"]

ZapSet(rp) == {rp.zap[i] : i \in 1..Len(rp.zap)}

NoDuplicates(rp) ==
  /\ \A i, j \in 1..Len(rp.zap) : rp.zap[i] = rp.zap[j] => i = j
  /\ ZapSet(rp) \cap DOMAIN rp.snooze = {}

\* C20: the zap list never holds a full_name twice and no full_name is both
\* zapped and snoozed, in memory and in the file
C20_ZapUnique == NoDuplicates(repos) /\ NoDuplicates(disk.repos)

\* a later fetch has returned a name that is in the zap list
C20_Witness ==
  /\ ev.op = "dispatch"
  /\ pc = "fetch"
  /\ \E i \in 1..Len(ev.items) : ev.items[i] \in ZapSet(repos)
  /\ DOMAIN repos.snooze # {}

====
